---- MODULE Spec2Model ----
(***************************************************************************)
(* ArrangeJob (src/slic3r/GUI/Jobs/ArrangeJob.cpp): the arrange job of the *)
(* plater.  prepare() classifies the model instances (and the wipe tower)  *)
(* into m_selected / m_unselected / m_unprintable, process() drives the    *)
(* packing engine on the worker thread, finalize() writes the result back. *)
(*                                                                         *)
(* Lengths: configuration values and instance offsets are millimetres      *)
(* (integers here), item coordinates are scaled (SCALING units per mm).    *)
(***************************************************************************)
EXTENDS Integers, Sequences, FiniteSets, TLC

\* ------------------------------------------------------------------ bounds
MaxTotal == 3      \* instances in the whole model, for the prepare() specification
RunTotal == 2      \* instances in the whole model, for the run specification
MaxBed   == 2      \* largest virtual bed index the engine hands out
MaxExtruders == 2  \* extruders of the printer, for the PrintRegion specification

\* --------------------------------------------------------------- constants
SCALING == 10                 \* scaled units per millimetre (1 / SCALING_FACTOR)
LOGICAL_BED_GAP_TENTHS == 1   \* LOGICAL_BED_GAP, in tenths of the bed width
UNSET == -1                   \* an absent per-object option (config.option() == nullptr)
WT == <<0, 0>>                \* back-reference of the wipe tower item

Max(a, b) == IF a >= b THEN a ELSE b

\* double -> coord_t conversion: truncation toward zero of num / den
Trunc(num, den) == IF num >= 0 THEN num \div den ELSE -((-num) \div den)

\* scaled(v): millimetres to scaled units
scaled(v) == v * SCALING

\* unscaled(c): scaled units to millimetres
unscaled(c) == Trunc(c, SCALING)

\* scale_(h / 2) assigned to a coord_t; h is the length in half millimetres
scale_(h) == Trunc(h * SCALING, 2)

VARIABLES
    objects,        \* model.objects: Seq of [instances: Seq of instance, brim_width]
    sel_content,    \* get_selection().get_content(): object idx (0-based) -> set of instance idx
    sel_wt,         \* get_selection().is_wipe_tower()
    wti,            \* wipe tower of the live print: [valid, x, y, rot]
    config,         \* plater / print configuration and arrange settings
    ub_read,        \* what reading element 0 of an empty vector does in this build
    wt_adapter,     \* the WipeTower adapter behind the tower item: <<[x, y, rot]>> or <<>>
    nozzle_diameter,  \* print config: nozzle diameter per extruder, in 1/100 mm
    pr_call,          \* the last PrintRegion call: its name and arguments
    pr_result,        \* what that call returned or threw
    object_extruders, \* the std::set<uint16_t> collect_object_printing_extruders fills
    m_selected,     \* ArrangeJob::m_selected
    m_unselected,   \* ArrangeJob::m_unselected
    m_unprintable,  \* ArrangeJob::m_unprintable
    pc,             \* position of the job in prepare -> process -> finalize
    mode,           \* which prepare ran: "all" or "selected"
    canceled,       \* Job::was_canceled()
    cursor,         \* engine: items of the list being arranged already settled
    params,         \* arrangement::ArrangeParams given to the engine
    engine_failed,  \* the engine threw inside process()
    notified,       \* GUI::show_error was raised
    status,         \* last update_status(value, message)
    applied,        \* back-references whose apply() ran in finalize()
    updated,        \* m_plater->update() was issued by finalize()
    arrange_calls,  \* the arrangement::arrange calls made: [list, min_obj_distance]
    worker_access,  \* shared state process() has touched on the worker thread
    pre_run,        \* scene transforms when prepare() ran: [objects, wti]
    had_items       \* the lists held items of an earlier run when prepare() was entered

scene_vars == <<objects, sel_content, sel_wt, wti, config, ub_read>>
job_vars   == <<m_selected, m_unselected, m_unprintable>>
run_vars   == <<cursor, params, engine_failed, notified, status, applied, updated,
                arrange_calls, worker_access>>
vars == <<objects, sel_content, sel_wt, wti, config, m_selected, m_unselected,
          m_unprintable, pc, mode, canceled, cursor, params, engine_failed,
          notified, status, applied, updated, arrange_calls, worker_access, pre_run,
          had_items, wt_adapter, nozzle_diameter, pr_call, pr_result, object_extruders>>
region_vars == <<nozzle_diameter, pr_call, pr_result, object_extruders>>

\* ------------------------------------------------------------------ helpers
RECURSIVE SumSeq(_)
SumSeq(s) == IF s = <<>> THEN 0 ELSE Head(s) + SumSeq(Tail(s))

\* back-references <<o, i>> of all instances, in the order of the two nested loops
RECURSIVE InstanceRefs(_, _)
InstanceRefs(objs, o) ==
    IF o > Len(objs) THEN <<>>
    ELSE [i \in 1..Len(objs[o].instances) |-> <<o, i>>] \o InstanceRefs(objs, o + 1)

Instance(objs, ref) == objs[ref[1]].instances[ref[2]]

Refs(items) == {items[k].ref : k \in 1..Len(items)}

Range(s) == {s[k] : k \in 1..Len(s)}

\* double bed_stride(const Plater *plater)
bed_stride(cfg) ==
    Trunc((10 + LOGICAL_BED_GAP_TENTHS) * cfg.bed_width * SCALING, 10)

\* ------------------------------------------------------------- the scene
\* ModelInstance::get_arrange_polygon + get_arrange_poly: the item of an instance.
\* The translation mirrors the instance offset, bed_idx is the bed it stands on.
InstanceItem(objs, cfg, ref) ==
    LET mi == Instance(objs, ref)
        tx == scaled(mi.x)
    IN  [ref |-> ref, poly |-> mi.poly, tx |-> tx, ty |-> scaled(mi.y),
         rot |-> mi.rot, bed_idx |-> Trunc(tx, bed_stride(cfg)), priority |-> 0]

\* WipeTower::get_arrange_polygon + get_arrange_poly: the item of the tower
get_arrange_polygon(w, cfg) ==
    LET tx == scaled(w.x)
    IN  [ref |-> WT, poly |-> scaled(w.bb), tx |-> tx, ty |-> scaled(w.y),
         rot |-> w.rot, bed_idx |-> Trunc(tx, bed_stride(cfg)), priority |-> 0 + 1]

\* explicit WipeTower(GLCanvas3D::WipeTowerInfo &&wti): the adapter holds its own
\* copy of the tower position and rotation; there is none without a tower
WipeTower(w) ==
    IF w.valid THEN <<[x |-> w.x, y |-> w.y, rot |-> w.rot]>> ELSE <<>>

\* get_wipe_tower_arrangepoly: the tower item when the tower exists, else nothing
get_wipe_tower_arrangepoly(w, cfg) ==
    IF w.valid THEN <<get_arrange_polygon(w, cfg)>> ELSE <<>>

\* offset_ex(ap.poly, diff): the contours of the outward offset of one footprint;
\* a footprint without points (extent 0) has no contour to offset
offset_ex(poly, diff) == IF poly = 0 THEN <<>> ELSE <<poly + diff>>

\* brimmed[0] of an empty std::vector is undefined: the build either faults on
\* the read or carries on with whatever extent the memory behind it gives
UBOutcomes ==
    {[crash |-> TRUE, poly |-> 0]} \cup {[crash |-> FALSE, poly |-> g] : g \in {0, 7}}

\* the offset add_brim applies for one object, in scaled units
brim_diff(obj, cfg) ==
    LET diff0 == scale_(2 * cfg.brim_width - cfg.extruder_clearance_radius)
    IN  IF obj.brim_width # UNSET
        THEN scale_(2 * obj.brim_width - cfg.extruder_clearance_radius)
        ELSE diff0

\* an add_brim that never looks at the per-object brim_width
add_brim_no_override(ap, obj, cfg) ==
    IF ~cfg.complete_objects_one_brim
    THEN LET diff == scale_(2 * cfg.brim_width - cfg.extruder_clearance_radius)
         IN  IF diff > 0
             THEN [ap EXCEPT !.poly = offset_ex(ap.poly, diff)[1]]
             ELSE ap
    ELSE ap

\* void add_brim(ArrangePolygon &ap, const ModelConfigObject &config, const Plater*)
add_brim(ap, obj, cfg) ==
    IF ~cfg.complete_objects_one_brim
    THEN LET diff == brim_diff(obj, cfg)
         IN  IF diff > 0
             THEN LET brimmed == offset_ex(ap.poly, diff)
                  IN  [ap EXCEPT !.poly = IF brimmed = <<>> THEN ub_read.poly
                                          ELSE brimmed[1]]
             ELSE ap
    ELSE ap

\* some add_brim call of this prepare() reads brimmed[0] of an empty vector
brim_reads_past_end(objs, cfg) ==
    /\ ~cfg.complete_objects_one_brim
    /\ \E ref \in Range(InstanceRefs(objs, 1)) :
          /\ brim_diff(objs[ref[1]], cfg) > 0
          /\ offset_ex(Instance(objs, ref).poly, brim_diff(objs[ref[1]], cfg)) = <<>>

\* the item prepare builds for one instance: get_arrange_poly, then add_brim
BrimmedItem(objs, cfg, ref) ==
    add_brim(InstanceItem(objs, cfg, ref), objs[ref[1]], cfg)

ItemsOf(objs, cfg, refs) ==
    [k \in 1..Len(refs) |-> BrimmedItem(objs, cfg, refs[k])]

\* a clear_input() that forgets m_unselected.clear()
clear_input_keeps_unselected(lists) ==
    [selected |-> <<>>, unselected |-> lists.unselected, unprintable |-> <<>>]

\* a clear_input() that forgets m_unprintable.clear()
clear_input_keeps_unprintable(lists) ==
    [selected |-> <<>>, unselected |-> <<>>, unprintable |-> lists.unprintable]

\* void ArrangeJob::clear_input(): the three lists after clear()
clear_input(lists) == [selected |-> <<>>, unselected |-> <<>>, unprintable |-> <<>>]

\* obj_sel[oidx]: the selected instance indices of object o (1-based here);
\* entries whose object index is not below the number of objects are skipped
obj_sel(objs, content, o) ==
    UNION {s[2] : s \in {e \in content : e[1] < Len(objs) /\ e[1] = o - 1}}

\* an inst_sel indexed from one instead of zero
inst_sel_off_by_one(objs, content, ref) == ref[2] \in obj_sel(objs, content, ref[1])

\* inst_sel[i] of object o
inst_sel(objs, content, ref) == (ref[2] - 1) \in obj_sel(objs, content, ref[1])

\* the loop body of both prepares: the items of the instances that go to one list
Printable(objs, refs)   == SelectSeq(refs, LAMBDA r : Instance(objs, r).printable)
Unprintable(objs, refs) == SelectSeq(refs, LAMBDA r : ~Instance(objs, r).printable)

\* void ArrangeJob::prepare_all(): the three lists it leaves
prepare_all_lists(objs, w, cfg, lists) ==
    LET c    == clear_input(lists)
        refs == InstanceRefs(objs, 1)
    IN  [selected    |-> c.selected \o ItemsOf(objs, cfg, Printable(objs, refs))
                                    \o get_wipe_tower_arrangepoly(w, cfg),
         unselected  |-> c.unselected,
         unprintable |-> c.unprintable \o ItemsOf(objs, cfg, Unprintable(objs, refs))]

\* a prepare_selected that never asks get_selection().is_wipe_tower()
classify_selected_tower_fixed(objs, content, selwt, w, cfg, lists) ==
    LET c    == clear_input(lists)
        refs == InstanceRefs(objs, 1)
        pr   == Printable(objs, refs)
        wt   == get_wipe_tower_arrangepoly(w, cfg)
    IN  [selected    |-> c.selected
                         \o ItemsOf(objs, cfg, SelectSeq(pr, LAMBDA r : inst_sel(objs, content, r))),
         unselected  |-> c.unselected
                         \o ItemsOf(objs, cfg, SelectSeq(pr, LAMBDA r : ~inst_sel(objs, content, r)))
                         \o wt,
         unprintable |-> c.unprintable \o ItemsOf(objs, cfg, Unprintable(objs, refs))]

\* prepare_selected, lines 110-149: the lists before the fallback swap
classify_selected(objs, content, selwt, w, cfg, lists) ==
    LET c    == clear_input(lists)
        refs == InstanceRefs(objs, 1)
        pr   == Printable(objs, refs)
        wt   == get_wipe_tower_arrangepoly(w, cfg)
    IN  [selected    |-> c.selected
                         \o ItemsOf(objs, cfg, SelectSeq(pr, LAMBDA r : inst_sel(objs, content, r)))
                         \o (IF selwt THEN wt ELSE <<>>),
         unselected  |-> c.unselected
                         \o ItemsOf(objs, cfg, SelectSeq(pr, LAMBDA r : ~inst_sel(objs, content, r)))
                         \o (IF selwt THEN <<>> ELSE wt),
         unprintable |-> c.unprintable \o ItemsOf(objs, cfg, Unprintable(objs, refs))]

\* a prepare_selected without the fallback
no_fallback_swap(l) == l

\* prepare_selected, line 152: if (m_selected.empty()) m_selected.swap(m_unselected)
fallback_swap(l) ==
    IF l.selected = <<>>
    THEN [l EXCEPT !.selected = l.unselected, !.unselected = l.selected]
    ELSE l

\* a normalisation that takes one stride off whatever the bed
remove_one_stride(p, stride) == [p EXCEPT !.tx = p.tx - stride]

\* prepare_selected, line 157: p.translation(X) -= p.bed_idx * stride
remove_stride(p, stride) == [p EXCEPT !.tx = p.tx - p.bed_idx * stride]

\* void ArrangeJob::prepare_selected(): the three lists it leaves
prepare_selected_lists(objs, content, selwt, w, cfg, lists) ==
    LET stride == bed_stride(cfg)
        l      == fallback_swap(classify_selected(objs, content, selwt, w, cfg, lists))
    IN  [l EXCEPT !.unselected =
            [k \in 1..Len(l.unselected) |-> remove_stride(l.unselected[k], stride)]]

Lists == [selected |-> m_selected, unselected |-> m_unselected,
          unprintable |-> m_unprintable]

\* what Job::start resets before it calls prepare()
NoStatus == [value |-> -1, msg |-> "none"]
NoParams == [allow_rotations |-> FALSE, min_obj_distance |-> -1]

StartRun(l, m) ==
    /\ pc = "idle"
    /\ m_selected' = l.selected
    /\ m_unselected' = l.unselected
    /\ m_unprintable' = l.unprintable
    /\ mode' = m
    /\ pc' = IF brim_reads_past_end(objects, config) /\ ub_read.crash
             THEN "crashed" ELSE "prepared"
    /\ pre_run' = [objects |-> objects, wti |-> wti]
    /\ had_items' = (m_selected \o m_unselected \o m_unprintable # <<>>)
    /\ wt_adapter' = WipeTower(wti)
    /\ UNCHANGED <<region_vars, scene_vars, canceled, run_vars>>

\* prepare() with the shift key up
prepare_all ==
    StartRun(prepare_all_lists(objects, wti, config, Lists), "all")

\* prepare() with the shift key down
prepare_selected ==
    StartRun(prepare_selected_lists(objects, sel_content, sel_wt, wti, config, Lists),
             "selected")

\* ------------------------------------------------------------- process()
\* count = unsigned(m_selected.size() + m_unprintable.size())
count == Len(m_selected) + Len(m_unprintable)

\* a minimum distance that forgets to double the model's
min_obj_distance_undoubled(cfg) == scaled(Max(cfg.distance, cfg.min_object_distance))

\* params.min_obj_distance = scaled(std::max(double(settings.distance), min_dist_computed * 2))
min_obj_distance(cfg) == scaled(Max(cfg.distance, cfg.min_object_distance * 2))

\* the first progress indicator: st += m_unprintable.size(); if (st > 0) update_status(count - st)
progressind1(st0) ==
    LET st == st0 + Len(m_unprintable)
    IN  IF st > 0 THEN [value |-> count - st, msg |-> "Arranging"] ELSE status

\* a second progress indicator that adds the unprintable items like the first
progressind2_adds_unprintable(st) ==
    IF st + Len(m_unprintable) > 0
    THEN [value |-> count - (st + Len(m_unprintable)), msg |-> "Arranging"]
    ELSE status

\* the second progress indicator: if (st > 0) update_status(count - st)
progressind2(st) ==
    IF st > 0 THEN [value |-> count - st, msg |-> "Arranging"] ELSE status

\* what the engine writes into an item it settles on bed b
Settle(ap, b) == [ap EXCEPT !.tx = scaled(20), !.ty = scaled(20), !.bed_idx = b]

\* what process() reads through m_plater before the engine runs: the arrange
\* settings of the canvas (line 170), the full print config of the current print
\* (line 172) and the bed shape of the plater config (line 179)
process_reads ==
    {[state |-> "configuration", of |-> "canvas3D()->get_arrange_settings()"],
     [state |-> "print state", of |-> "current_print()->full_print_config()"],
     [state |-> "configuration", of |-> "get_bed_shape(*m_plater->config())"]}

\* process() up to its first arrangement::arrange call
process_begin ==
    /\ pc = "prepared"
    /\ params' = [allow_rotations  |-> config.enable_rotation,
                  min_obj_distance |-> min_obj_distance(config)]
    /\ arrange_calls' = <<[list |-> "selected", min_obj_distance |-> params'.min_obj_distance]>>
    /\ worker_access' = process_reads
    /\ cursor' = 0
    /\ pc' = "arrange1"
    /\ UNCHANGED <<region_vars, wt_adapter, scene_vars, job_vars, mode, canceled, engine_failed, notified,
                   status, applied, updated, pre_run, had_items>>

\* arrange(m_selected, m_unselected, ...): the engine settles the next item
arrange1_item ==
    /\ pc = "arrange1"
    /\ ~canceled
    /\ cursor < Len(m_selected)
    /\ \E b \in 0..MaxBed :
          m_selected' = [m_selected EXCEPT ![cursor + 1] = Settle(@, b)]
    /\ cursor' = cursor + 1
    /\ status' = progressind1(Len(m_selected) - cursor')
    /\ UNCHANGED <<region_vars, wt_adapter, scene_vars, m_unselected, m_unprintable, pc, mode, canceled, params,
                   engine_failed, notified, applied, updated, arrange_calls, worker_access, pre_run, had_items>>

\* the first arrange returns (all settled, or stopcondition()); the second is called
arrange1_return ==
    /\ pc = "arrange1"
    /\ (canceled \/ cursor = Len(m_selected))
    /\ arrange_calls' = Append(arrange_calls,
            [list |-> "unprintable", min_obj_distance |-> params.min_obj_distance])
    /\ cursor' = 0
    /\ pc' = "arrange2"
    /\ UNCHANGED <<region_vars, wt_adapter, scene_vars, job_vars, mode, canceled, params, engine_failed, notified,
                   status, applied, updated, worker_access, pre_run, had_items>>

\* arrange(m_unprintable, {}, ...): the engine settles the next item
arrange2_item ==
    /\ pc = "arrange2"
    /\ ~canceled
    /\ cursor < Len(m_unprintable)
    /\ \E b \in 0..MaxBed :
          m_unprintable' = [m_unprintable EXCEPT ![cursor + 1] = Settle(@, b)]
    /\ cursor' = cursor + 1
    /\ status' = progressind2(Len(m_unprintable) - cursor')
    /\ UNCHANGED <<region_vars, wt_adapter, scene_vars, m_selected, m_unselected, pc, mode, canceled, params,
                   engine_failed, notified, applied, updated, arrange_calls, worker_access, pre_run, had_items>>

\* the second arrange returns
arrange2_return ==
    /\ pc = "arrange2"
    /\ (canceled \/ cursor = Len(m_unprintable))
    /\ pc' = "final"
    /\ UNCHANGED <<region_vars, wt_adapter, scene_vars, job_vars, mode, canceled, run_vars, pre_run, had_items>>

\* the engine throws on an invalid geometry, before it produces any output;
\* catch (std::exception &) { GUI::show_error(...) }
arrange_throw ==
    /\ \/ pc = "arrange1" /\ Len(m_selected) + Len(m_unselected) > 0
       \/ pc = "arrange2" /\ Len(m_unprintable) > 0
    /\ cursor = 0
    /\ engine_failed' = TRUE
    /\ notified' = TRUE
    /\ pc' = "final"
    /\ UNCHANGED <<region_vars, wt_adapter, scene_vars, job_vars, mode, canceled, cursor, params, status, applied,
                   updated, arrange_calls, worker_access, pre_run, had_items>>

\* update_status(int(count), was_canceled() ? "Arranging canceled." : "Arranging done.")
process_end ==
    /\ pc = "final"
    /\ status' = [value |-> count,
                  msg   |-> IF canceled THEN "Arranging canceled." ELSE "Arranging done."]
    /\ pc' = "processed"
    /\ UNCHANGED <<region_vars, wt_adapter, scene_vars, job_vars, mode, canceled, cursor, params, engine_failed,
                   notified, applied, updated, arrange_calls, worker_access, pre_run, had_items>>

\* Job::cancel() from the initiating thread, any time between prepare() and finalize()
cancel ==
    /\ pc \in {"prepared", "arrange1", "arrange2", "final", "processed"}
    /\ ~canceled
    /\ canceled' = TRUE
    /\ UNCHANGED <<region_vars, wt_adapter, scene_vars, job_vars, pc, mode, run_vars, pre_run, had_items>>

\* ------------------------------------------------------------- finalize()
\* WipeTowerInfo::apply_wipe_tower(): the adapter's position and rotation go into
\* the tower of the live print
apply_wipe_tower(w, a) == [w EXCEPT !.x = a.x, !.y = a.y, !.rot = a.rot]

\* an apply_arrange_result that leaves the live print for later
apply_arrange_result_deferred(w, tr, rotation) ==
    [adapter |-> [x |-> unscaled(tr[1]), y |-> unscaled(tr[2]), rot |-> rotation],
     wti     |-> w]

\* void apply_arrange_result(const Vec2d& tr, double rotation):
\* m_pos = unscaled(tr); m_rotation = rotation; apply_wipe_tower();
apply_arrange_result(w, tr, rotation) ==
    LET a == [x |-> unscaled(tr[1]), y |-> unscaled(tr[2]), rot |-> rotation]
    IN  [adapter |-> a, wti |-> apply_wipe_tower(w, a)]

\* ArrangePolygon::apply() through the setter of get_arrange_poly: the placement,
\* with the stride of its bed put back, is written into the backing instance, or
\* into the tower by WipeTower::apply_arrange_result
apply(scene, ap, stride) ==
    LET x == unscaled(ap.tx + ap.bed_idx * stride)
        y == unscaled(ap.ty)
    IN  IF ap.ref = WT
        THEN LET r == apply_arrange_result(scene.wti,
                          <<ap.tx + ap.bed_idx * stride, ap.ty>>, ap.rot)
             IN  [scene EXCEPT !.wti = r.wti, !.adapter = <<r.adapter>>]
        ELSE [scene EXCEPT !.objects[ap.ref[1]].instances[ap.ref[2]].x = x,
                           !.objects[ap.ref[1]].instances[ap.ref[2]].y = y,
                           !.objects[ap.ref[1]].instances[ap.ref[2]].rot = ap.rot]

RECURSIVE ApplyAll(_, _, _)
ApplyAll(scene, items, stride) ==
    IF items = <<>> THEN scene
    ELSE ApplyAll(apply(scene, Head(items), stride), Tail(items), stride)

RECURSIVE MaxBedIdx(_, _)
\* beds = std::max(ap.bed_idx, beds) over a list
MaxBedIdx(items, beds) ==
    IF items = <<>> THEN beds
    ELSE MaxBedIdx(Tail(items), Max(Head(items).bed_idx, beds))

\* int beds = 0, then the maximum over m_selected and m_unselected
Beds(selected, unselected) == MaxBedIdx(unselected, MaxBedIdx(selected, 0))

\* ap.bed_idx += beds
to_last_used_bed(ap, beds) == [ap EXCEPT !.bed_idx = ap.bed_idx + beds]

\* ap.bed_idx += beds + 1
to_last_bed(ap, beds) == [ap EXCEPT !.bed_idx = ap.bed_idx + beds + 1]

\* a finalize() whose second loop applies the unselected items as well
finalize_commit_applies_unselected(scene, selected, unselected, unprintable, stride) ==
    LET beds  == Beds(selected, unselected)
        moved == [k \in 1..Len(unprintable) |-> to_last_bed(unprintable[k], beds)]
    IN  [scene       |-> ApplyAll(ApplyAll(ApplyAll(scene, selected, stride),
                                           unselected, stride), moved, stride),
         unprintable |-> moved,
         applied     |-> Refs(selected) \cup Refs(unselected) \cup Refs(moved),
         updated     |-> TRUE]

\* finalize() past its was_canceled() check, lines 212-231
finalize_commit(scene, selected, unselected, unprintable, stride) ==
    LET beds  == Beds(selected, unselected)
        moved == [k \in 1..Len(unprintable) |-> to_last_bed(unprintable[k], beds)]
    IN  [scene       |-> ApplyAll(ApplyAll(scene, selected, stride), moved, stride),
         unprintable |-> moved,
         applied     |-> Refs(selected) \cup Refs(moved),
         updated     |-> TRUE]

\* a finalize() that does not look at was_canceled()
finalize_unconditional(was_canceled, scene, selected, unselected, unprintable, stride) ==
    finalize_commit(scene, selected, unselected, unprintable, stride)

\* void ArrangeJob::finalize(): the scene and the unprintable list it leaves, the
\* back-references it applied and whether it issued the scene update
finalize_result(was_canceled, scene, selected, unselected, unprintable, stride) ==
    IF was_canceled
    THEN [scene |-> scene, unprintable |-> unprintable, applied |-> {}, updated |-> FALSE]
    ELSE finalize_commit(scene, selected, unselected, unprintable, stride)

finalize ==
    /\ pc = "processed"
    /\ LET r == finalize_result(canceled,
                                [objects |-> objects, wti |-> wti, adapter |-> wt_adapter],
                                m_selected, m_unselected, m_unprintable,
                                bed_stride(config))
       IN  /\ objects' = r.scene.objects
           /\ wti' = r.scene.wti
           /\ wt_adapter' = r.scene.adapter
           /\ m_unprintable' = r.unprintable
           /\ applied' = r.applied
           /\ updated' = r.updated
    /\ pc' = "done"
    /\ UNCHANGED <<region_vars, sel_content, sel_wt, config, ub_read, m_selected, m_unselected, mode, canceled,
                   cursor, params, engine_failed, notified, status, arrange_calls,
                   worker_access, pre_run, had_items>>

\* ------------------------------------------------------------ PrintRegion
\* the enumerators of FlowRole the code names; frUnknown stands for any other value
Roles ==
    {"frExternalPerimeter", "frPerimeter", "frInfill", "frSolidInfill",
     "frTopSolidInfill", "frSupportMaterial", "frSupportMaterialInterface", "frUnknown"}

\* the values of a uint16_t
UINT16_RANGE == 65536

Returned(v) == [ok |-> TRUE, value |-> <<v>>, error |-> "none"]
Thrown(msg) == [ok |-> FALSE, value |-> <<>>, error |-> msg]

\* an extruder() for which every role it does not know is a perimeter
extruder_defaulting(role, m_config, object) ==
    IF role \in {"frInfill"} THEN Returned(m_config.infill_extruder % UINT16_RANGE)
    ELSE IF role \in {"frSolidInfill", "frTopSolidInfill"}
    THEN Returned(m_config.solid_infill_extruder % UINT16_RANGE)
    ELSE IF role = "frSupportMaterial"
    THEN Returned(object.support_material_extruder % UINT16_RANGE)
    ELSE IF role = "frSupportMaterialInterface"
    THEN Returned(object.support_material_interface_extruder % UINT16_RANGE)
    ELSE Returned(m_config.perimeter_extruder % UINT16_RANGE)

\* uint16_t PrintRegion::extruder(FlowRole role, const PrintObject& object) const
extruder(role, m_config, object) ==
    IF role \in {"frPerimeter", "frExternalPerimeter"}
    THEN Returned(m_config.perimeter_extruder % UINT16_RANGE)
    ELSE IF role = "frInfill"
    THEN Returned(m_config.infill_extruder % UINT16_RANGE)
    ELSE IF role \in {"frSolidInfill", "frTopSolidInfill"}
    THEN Returned(m_config.solid_infill_extruder % UINT16_RANGE)
    ELSE IF role = "frSupportMaterial"
    THEN Returned(object.support_material_extruder % UINT16_RANGE)
    ELSE IF role = "frSupportMaterialInterface"
    THEN Returned(object.support_material_interface_extruder % UINT16_RANGE)
    ELSE Thrown("Unknown role")

\* ConfigOptionVector::get_at(i): element i, or the first element when i is no
\* index of the vector (a negative int arrives as a size_t above every size)
get_at(values, i) ==
    IF 0 <= i /\ i < Len(values) THEN values[i + 1] ELSE values[1]

\* nozzle_diameter.get_at(this->extruder(role, object) - 1), lines 57 and 89
role_nozzle_diameter(role, m_config, object, nozzles) ==
    LET e == extruder(role, m_config, object)
    IN  IF e.ok THEN Returned(get_at(nozzles, e.value[1] - 1)) ELSE e

AbsWidth(v) == [value |-> v, percent |-> FALSE]

\* the role chain of flow(), lines 38-50
flow_config_width(role, m_config) ==
    IF role = "frExternalPerimeter" THEN Returned(m_config.external_perimeter_extrusion_width)
    ELSE IF role = "frPerimeter" THEN Returned(m_config.perimeter_extrusion_width)
    ELSE IF role = "frInfill" THEN Returned(m_config.infill_extrusion_width)
    ELSE IF role = "frSolidInfill" THEN Returned(m_config.solid_infill_extrusion_width)
    ELSE IF role = "frTopSolidInfill" THEN Returned(m_config.top_infill_extrusion_width)
    ELSE Thrown("Unknown role")

\* Flow PrintRegion::flow(role, layer_height, bridge, first_layer, width, object):
\* the arguments it hands to Flow::new_from_config_width, or what it throws
flow(role, layer_height, bridge, first_layer, width, m_config, object, nozzles) ==
    LET chosen == IF width # -1 THEN Returned(AbsWidth(width))
                  ELSE IF first_layer /\ object.first_layer_extrusion_width.value > 0
                  THEN Returned(object.first_layer_extrusion_width)
                  ELSE flow_config_width(role, m_config)
    IN  IF ~chosen.ok THEN chosen
        ELSE LET config_width == IF chosen.value[1].value = 0
                                 THEN object.extrusion_width ELSE chosen.value[1]
                 nozzle == role_nozzle_diameter(role, m_config, object, nozzles)
             IN  IF ~nozzle.ok THEN nozzle
                 ELSE Returned([role |-> role, width |-> config_width,
                                nozzle_diameter |-> nozzle.value[1],
                                height |-> layer_height,
                                bridge_flow_ratio |->
                                    IF bridge THEN m_config.bridge_flow_ratio ELSE 0])

\* the role chain of width(), lines 67-81
width_config_width(role, m_config, object) ==
    IF role \in {"frSupportMaterial", "frSupportMaterialInterface"}
    THEN Returned(object.support_material_extrusion_width)
    ELSE flow_config_width(role, m_config)

\* float PrintRegion::width(FlowRole role, bool first_layer, const PrintObject&):
\* a width in 1/100 mm, or the request for the automatic width of the nozzle
width(role, first_layer, m_config, object, nozzles) ==
    LET chosen == IF first_layer /\ object.first_layer_extrusion_width.value > 0
                  THEN Returned(object.first_layer_extrusion_width)
                  ELSE width_config_width(role, m_config, object)
    IN  IF ~chosen.ok THEN chosen
        ELSE LET config_width == IF chosen.value[1].value = 0
                                 THEN object.extrusion_width ELSE chosen.value[1]
                 nozzle == role_nozzle_diameter(role, m_config, object, nozzles)
             IN  IF ~nozzle.ok THEN nozzle
                 ELSE IF config_width.value <= 0
                 THEN Returned([auto |-> TRUE, role |-> role, width |-> nozzle.value[1]])
                 ELSE Returned([auto |-> FALSE, role |-> role,
                                width |-> IF config_width.percent
                                          THEN (nozzle.value[1] * config_width.value) \div 100
                                          ELSE config_width.value])
\* an emplace_extruder without the range check
emplace_extruder_unchecked(set, num_extruders, extruder_id) ==
    set \cup {Max(0, extruder_id - 1) % UINT16_RANGE}

\* the lambda emplace_extruder, lines 115-118
emplace_extruder(set, num_extruders, extruder_id) ==
    LET i == Max(0, extruder_id - 1)
    IN  set \cup {(IF i >= num_extruders THEN 0 ELSE i) % UINT16_RANGE}

\* static void PrintRegion::collect_object_printing_extruders(print_config,
\* object_config, region_config, object_extruders): the set it leaves
collect_object_printing_extruders(nozzles, object_config, region_config, set) ==
    LET num_extruders == Len(nozzles)
        s1 == IF region_config.perimeters > 0 \/ object_config.brim_width > 0
              THEN emplace_extruder(set, num_extruders, region_config.perimeter_extruder)
              ELSE set
        s2 == IF region_config.fill_density > 0
              THEN emplace_extruder(s1, num_extruders, region_config.infill_extruder)
              ELSE s1
    IN  IF region_config.top_solid_layers > 0 \/ region_config.bottom_solid_layers > 0
        THEN emplace_extruder(s2, num_extruders, region_config.solid_infill_extruder)
        ELSE s2

RECURSIVE collect_over_objects(_, _, _, _)
\* for (const PrintObject *obj : this->m_print->objects()) collect_...(...)
collect_over_objects(nozzles, object_configs, region_config, set) ==
    IF object_configs = <<>> THEN set
    ELSE collect_over_objects(nozzles, Tail(object_configs), region_config,
            collect_object_printing_extruders(nozzles, Head(object_configs),
                                              region_config, set))

\* the asserts of the member function, compiled in unless NDEBUG is defined
extruders_asserted(nozzles, region_config) ==
    /\ region_config.perimeter_extruder <= Len(nozzles)
    /\ region_config.infill_extruder <= Len(nozzles)
    /\ region_config.solid_infill_extruder <= Len(nozzles)

\* void PrintRegion::collect_object_printing_extruders(object_extruders) const
collect_member(ndebug, nozzles, object_configs, region_config, set) ==
    IF ~ndebug /\ ~extruders_asserted(nozzles, region_config)
    THEN [result |-> Thrown("assertion failed"), set |-> set]
    ELSE [result |-> Returned(0),
          set    |-> collect_over_objects(nozzles, object_configs, region_config, set)]

\* configurations of a region and of an object
ExtruderIds == 0..(MaxExtruders + 1)

DefaultRegionConfig ==
    [perimeter_extruder |-> 1, infill_extruder |-> 1, solid_infill_extruder |-> 1,
     perimeters |-> 2, fill_density |-> 20, top_solid_layers |-> 3,
     bottom_solid_layers |-> 3, bridge_flow_ratio |-> 100,
     external_perimeter_extrusion_width |-> AbsWidth(42),
     perimeter_extrusion_width |-> AbsWidth(45),
     infill_extrusion_width |-> [value |-> 110, percent |-> TRUE],
     solid_infill_extrusion_width |-> AbsWidth(0),
     top_infill_extrusion_width |-> AbsWidth(40)]

DefaultObjectConfig ==
    [support_material_extruder |-> 1, support_material_interface_extruder |-> 1,
     brim_width |-> 0, first_layer_extrusion_width |-> AbsWidth(0),
     support_material_extrusion_width |-> AbsWidth(50),
     extrusion_width |-> AbsWidth(44)]

RegionExtruders ==
    {[DefaultRegionConfig EXCEPT !.perimeter_extruder = p, !.infill_extruder = i,
                                 !.solid_infill_extruder = s] :
        p \in ExtruderIds, i \in ExtruderIds, s \in ExtruderIds}

RegionFeatures ==
    {[rc EXCEPT !.perimeters = f[1], !.fill_density = f[2], !.top_solid_layers = f[3],
                !.bottom_solid_layers = f[4]] :
        rc \in RegionExtruders, f \in {0, 2} \X {0, 20} \X {0, 3} \X {0, 3}}

LookupObjects ==
    {[DefaultObjectConfig EXCEPT !.support_material_extruder = e,
                                 !.support_material_interface_extruder = e,
                                 !.first_layer_extrusion_width = AbsWidth(w)] :
        e \in ExtruderIds, w \in {0, 41}}

BrimObjects == {[DefaultObjectConfig EXCEPT !.brim_width = b] : b \in {0, 5}}

NoCall == [fn |-> "none"]

\* ------------------------------------------------ calls into a PrintRegion
arrange_vars == <<scene_vars, job_vars, pc, mode, canceled, run_vars, pre_run, had_items, wt_adapter>>

call_extruder ==
    /\ pr_call.fn = "none"
    /\ \E role \in Roles, rc \in RegionExtruders, oc \in LookupObjects :
        /\ pr_call' = [fn |-> "extruder", role |-> role, region |-> rc, object |-> oc]
        /\ pr_result' = extruder(role, rc, oc)
        /\ UNCHANGED <<arrange_vars, nozzle_diameter, object_extruders>>

call_flow ==
    /\ pr_call.fn = "none"
    /\ \E role \in Roles, rc \in RegionExtruders, oc \in LookupObjects,
       bridge \in BOOLEAN, first_layer \in BOOLEAN, w \in {-1, 40} :
        /\ pr_call' = [fn |-> "flow", role |-> role, region |-> rc, object |-> oc,
                       bridge |-> bridge, first_layer |-> first_layer, width |-> w]
        /\ pr_result' = flow(role, 20, bridge, first_layer, w, rc, oc, nozzle_diameter)
        /\ UNCHANGED <<arrange_vars, nozzle_diameter, object_extruders>>

call_width ==
    /\ pr_call.fn = "none"
    /\ \E role \in Roles, rc \in RegionExtruders, oc \in LookupObjects,
       first_layer \in BOOLEAN :
        /\ pr_call' = [fn |-> "width", role |-> role, region |-> rc, object |-> oc,
                       first_layer |-> first_layer]
        /\ pr_result' = width(role, first_layer, rc, oc, nozzle_diameter)
        /\ UNCHANGED <<arrange_vars, nozzle_diameter, object_extruders>>

call_collect_static ==
    /\ pr_call.fn = "none"
    /\ \E rc \in RegionFeatures, oc \in BrimObjects :
        /\ pr_call' = [fn |-> "collect", region |-> rc, objects |-> <<oc>>,
                       before |-> object_extruders]
        /\ pr_result' = Returned(0)
        /\ object_extruders' =
              collect_object_printing_extruders(nozzle_diameter, oc, rc, object_extruders)
        /\ UNCHANGED <<arrange_vars, nozzle_diameter>>

call_collect_member ==
    /\ pr_call.fn = "none"
    /\ \E rc \in RegionFeatures, ndebug \in BOOLEAN,
       ocs \in UNION {[1..n -> BrimObjects] : n \in 0..2} :
        LET r == collect_member(ndebug, nozzle_diameter, ocs, rc, object_extruders)
        IN  /\ pr_call' = [fn |-> "collect", region |-> rc, objects |-> ocs,
                           before |-> object_extruders]
            /\ pr_result' = r.result
            /\ object_extruders' = r.set
            /\ UNCHANGED <<arrange_vars, nozzle_diameter>>

\* the caller takes what the call returned or threw and goes on
call_returns ==
    /\ pr_call.fn # "none"
    /\ pr_call' = NoCall
    /\ pr_result' = Returned(0)
    /\ UNCHANGED <<arrange_vars, nozzle_diameter, object_extruders>>

NextRegion ==
    \/ call_returns
    \/ call_extruder
    \/ call_flow
    \/ call_width
    \/ call_collect_static
    \/ call_collect_member

\* ------------------------------------------------------------------ Init
\* instance counts per object
Shapes(maxTotal) ==
    {s \in UNION {[1..n -> 1..maxTotal] : n \in 0..maxTotal} : SumSeq(s) <= maxTotal}

\* an instance standing at 10 mm on virtual bed b
InstanceOn(cfg, p, b) ==
    [printable |-> p, x |-> unscaled(b * bed_stride(cfg)) + 10, y |-> 10, rot |-> 0,
     poly |-> scaled(30)]

Instances(cfg, beds) == {InstanceOn(cfg, p, b) : p \in BOOLEAN, b \in beds}

ObjectsOf(shape, cfg, beds, brims) ==
    {objs \in [1..Len(shape) ->
                 [instances : UNION {[1..n -> Instances(cfg, beds)] : n \in Range(shape)},
                  brim_width : brims]] :
        \A o \in 1..Len(shape) : Len(objs[o].instances) = shape[o]}

\* the selection content of a choice f of selected instance indices per object; a
\* selected tower volume adds an entry whose object index is no index of the model
Content(objs, f, selwt) ==
    {<<o - 1, f[o]>> : o \in {q \in 1..Len(objs) : f[q] # {}}}
    \cup (IF selwt THEN {<<MaxTotal, {0}>>} ELSE {})

Selections(objs) ==
    {f \in [1..Len(objs) -> SUBSET (0..(MaxTotal - 1))] :
        \A o \in 1..Len(objs) : f[o] \subseteq 0..(Len(objs[o].instances) - 1)}

Towers == {[valid |-> FALSE, x |-> 0, y |-> 0, rot |-> 0, bb |-> 0],
           [valid |-> TRUE, x |-> 50, y |-> 50, rot |-> 0, bb |-> 10]}

DefaultConfig ==
    [complete_objects_one_brim |-> FALSE, brim_width |-> 0,
     extruder_clearance_radius |-> 4, bed_width |-> 200, distance |-> 6,
     min_object_distance |-> 2, enable_rotation |-> FALSE]

NoLists == [selected |-> <<>>, unselected |-> <<>>, unprintable |-> <<>>]

\* every instance named in empty is given a footprint without points
WithEmptyFootprints(objs, empty) ==
    [o \in 1..Len(objs) |->
        [objs[o] EXCEPT !.instances =
            [i \in 1..Len(objs[o].instances) |->
                IF <<o, i>> \in empty
                THEN [objs[o].instances[i] EXCEPT !.poly = 0]
                ELSE objs[o].instances[i]]]]

\* the footprints of InstanceOn have points, so no add_brim reads past the end
NoUB == [crash |-> TRUE, poly |-> 0]

InitScene(shapes, cfgs, beds, brims) ==
    /\ config \in cfgs
    /\ ub_read = NoUB
    /\ \E shape \in shapes : objects \in ObjectsOf(shape, config, beds, brims)
    /\ wti \in Towers
    /\ sel_wt \in {b \in BOOLEAN : b => wti.valid}
    /\ \E f \in Selections(objects) : sel_content = Content(objects, f, sel_wt)

\* no PrintRegion call has been made; the printer has one 0.4 mm nozzle
NoPrintRegion ==
    /\ nozzle_diameter = <<40>>
    /\ pr_call = NoCall
    /\ pr_result = Returned(0)
    /\ object_extruders = {}

InitJob(lists) ==
    /\ NoPrintRegion
    /\ m_selected = lists.selected
    /\ m_unselected = lists.unselected
    /\ m_unprintable = lists.unprintable
    /\ pc = "idle"
    /\ mode = "none"
    /\ canceled = FALSE
    /\ cursor = 0
    /\ params = NoParams
    /\ engine_failed = FALSE
    /\ notified = FALSE
    /\ status = NoStatus
    /\ applied = {}
    /\ updated = FALSE
    /\ arrange_calls = <<>>
    /\ worker_access = {}
    /\ wt_adapter = <<>>
    /\ pre_run = [objects |-> objects, wti |-> wti]
    /\ had_items = FALSE

\* one run of a freshly constructed job over objects of one instance each:
\* prepare(), process(), finalize()
Init ==
    /\ InitScene({[o \in 1..n |-> 1] : n \in 0..RunTotal}, {DefaultConfig},
                 {0, MaxBed}, {UNSET})
    /\ InitJob(NoLists)

Next ==
    \/ prepare_all
    \/ prepare_selected
    \/ process_begin
    \/ arrange1_item
    \/ arrange1_return
    \/ arrange2_item
    \/ arrange2_return
    \/ arrange_throw
    \/ process_end
    \/ cancel
    \/ finalize

Spec == Init /\ [][Next]_vars

\* ------------------------------------------- prepare() over richer scenes
\* a run that is cancelled before the engine settles an item: process() changes no
\* list, finalize() returns at once, and the next Job::start finds the job idle
\* with the lists of this run still in place
cancelled_run ==
    /\ pc = "prepared"
    /\ pc' = "idle"
    /\ UNCHANGED <<region_vars, wt_adapter, scene_vars, job_vars, mode, canceled, run_vars, pre_run, had_items>>

NextPrepare ==
    \/ prepare_all
    \/ prepare_selected
    \/ cancelled_run

InitPrepare ==
    /\ InitScene(Shapes(MaxTotal), {DefaultConfig}, {0, MaxBed}, {UNSET})
    /\ InitJob(NoLists)

SpecPrepare == InitPrepare /\ [][NextPrepare]_vars

\* prepare() of one instance under every brim configuration
BrimConfigs ==
    {[DefaultConfig EXCEPT !.complete_objects_one_brim = u, !.brim_width = b,
                           !.extruder_clearance_radius = c] :
        u \in BOOLEAN, b \in {0, 2, 3, 5}, c \in {0, 4, 5, 10}}

InitBrim ==
    /\ InitScene({<<1>>}, BrimConfigs, {0}, {UNSET, 0, 3, 5})
    /\ InitJob(NoLists)

SpecBrim == InitBrim /\ [][NextPrepare]_vars

\* prepare() of scenes in which some instances have a footprint without points
DegenerateConfigs == {[DefaultConfig EXCEPT !.brim_width = b] : b \in {0, 3}}

InitDegenerate ==
    /\ config \in DegenerateConfigs
    /\ ub_read \in UBOutcomes
    /\ \E base \in ObjectsOf(<<1, 1>>, config, {0}, {UNSET, 3}) :
          \E empty \in SUBSET Range(InstanceRefs(base, 1)) :
             objects = WithEmptyFootprints(base, empty)
    /\ wti \in Towers
    /\ sel_wt \in {b \in BOOLEAN : b => wti.valid}
    /\ \E f \in Selections(objects) : sel_content = Content(objects, f, sel_wt)
    /\ InitJob(NoLists)

SpecDegenerate == InitDegenerate /\ [][NextPrepare]_vars

\* calls into a PrintRegion of a print with 1..MaxExtruders extruders, the job idle
InitRegion ==
    /\ objects = <<>>
    /\ sel_content = {}
    /\ sel_wt = FALSE
    /\ wti = [valid |-> FALSE, x |-> 0, y |-> 0, rot |-> 0, bb |-> 0]
    /\ config = DefaultConfig
    /\ ub_read = NoUB
    /\ m_selected = <<>>
    /\ m_unselected = <<>>
    /\ m_unprintable = <<>>
    /\ pc = "idle"
    /\ mode = "none"
    /\ canceled = FALSE
    /\ cursor = 0
    /\ params = NoParams
    /\ engine_failed = FALSE
    /\ notified = FALSE
    /\ status = NoStatus
    /\ applied = {}
    /\ updated = FALSE
    /\ arrange_calls = <<>>
    /\ worker_access = {}
    /\ wt_adapter = <<>>
    /\ pre_run = [objects |-> objects, wti |-> wti]
    /\ had_items = FALSE
    /\ nozzle_diameter \in {[i \in 1..n |-> 30 + 10 * i] : n \in 1..MaxExtruders}
    /\ pr_call = NoCall
    /\ pr_result = Returned(0)
    /\ object_extruders = {}

SpecRegion == InitRegion /\ [][NextRegion]_vars

\* one run under every arrange distance setting
DistanceConfigs ==
    {[DefaultConfig EXCEPT !.distance = d, !.min_object_distance = m] :
        d \in {0, 3, 6}, m \in {0, 1, 2, 4}}

InitParams ==
    /\ InitScene({<<1>>}, DistanceConfigs, {0}, {UNSET})
    /\ InitJob(NoLists)

SpecParams == InitParams /\ [][Next]_vars

\* ------------------------------------------------------------------ claims
Scene == [objects |-> objects, wti |-> wti]

\* an item the engine has settled in this run
Settled(ap) == ap.tx = scaled(20) /\ ap.ty = scaled(20)

SetMax(S) == CHOOSE m \in S : \A n \in S : n <= m

BedIdxs(items) == {items[k].bed_idx : k \in 1..Len(items)}

\* C1: a run whose cancel flag is set when finalize() checks it writes nothing:
\* no apply() ran, every instance and the tower keep their pre-run transforms and
\* no scene update was issued; before finalize() the scene is never written at all.
C1_CancelWritesNothing ==
    (pc # "done" \/ canceled) =>
        /\ applied = {}
        /\ ~updated
        /\ Scene = pre_run

\* a cancelled, finished run in which the engine had settled the first of at
\* least two items when the cancel flag was raised
C1_Witness ==
    /\ pc = "done"
    /\ canceled
    /\ Len(m_selected) >= 2
    /\ Settled(m_selected[1])
    /\ ~Settled(m_selected[2])

\* C2: if the engine throws during process(), finalize() commits nothing: no
\* apply() ran, the scene is as before the run, no scene update was issued, and
\* the error notification was raised.
C2_FailureCommitsNothing ==
    (pc = "done" /\ engine_failed) =>
        /\ applied = {}
        /\ ~updated
        /\ Scene = pre_run
        /\ notified

\* C3: a finalize() that is not cancelled commits every unprintable item with
\* its bed index raised by beds + 1, beds the largest bed index among the selected
\* and the unselected items, which puts it above every one of them.
C3_UnprintableOnTrailingBed ==
    [][(pc = "processed" /\ pc' = "done" /\ ~canceled) =>
          LET beds == SetMax(BedIdxs(m_selected) \cup BedIdxs(m_unselected) \cup {0})
          IN  /\ Len(m_unprintable') = Len(m_unprintable)
              /\ \A k \in 1..Len(m_unprintable) :
                    /\ m_unprintable'[k].bed_idx = m_unprintable[k].bed_idx + beds + 1
                    /\ m_unprintable'[k].ref \in applied'
                    /\ \A b \in BedIdxs(m_selected) \cup BedIdxs(m_unselected) :
                          m_unprintable'[k].bed_idx > b]_vars

\* a committed run whose printable items reach bed 2 at most and whose
\* unprintable item, settled by the engine on bed 0, is committed on bed 3
C3_Witness ==
    /\ pc = "done"
    /\ ~canceled
    /\ ~engine_failed
    /\ m_unselected # <<>>
    /\ SetMax(BedIdxs(m_selected) \cup BedIdxs(m_unselected) \cup {0}) = 2
    /\ m_unprintable # <<>>
    /\ Settled(m_unprintable[1])
    /\ m_unprintable[1].bed_idx = 3

AllRefs == Range(InstanceRefs(objects, 1))

\* how many items of a list stand for ref
Count(items, ref) == Cardinality({k \in 1..Len(items) : items[k].ref = ref})

InList(items, ref) == Count(items, ref) = 1

\* the instance index of ref is in the selected-instance-index set of its object
IndexSelected(ref) ==
    \E e \in sel_content : e[1] = ref[1] - 1 /\ (ref[2] - 1) \in e[2]

PrintableRefs == {r \in AllRefs : Instance(objects, r).printable}

NoPrintableSelected == \A r \in PrintableRefs : ~IndexSelected(r)

\* C4: after prepare_all every instance with a false printable flag is in
\* unprintable, every other instance is in selected, and unselected is empty.
C4_ClassifyAll ==
    (pc = "prepared" /\ mode = "all") =>
        /\ m_unselected = <<>>
        /\ \A r \in AllRefs :
              IF Instance(objects, r).printable
              THEN InList(m_selected, r) /\ Count(m_unprintable, r) = 0
              ELSE InList(m_unprintable, r) /\ Count(m_selected, r) = 0

\* prepare_all over a model holding printable and unprintable instances
C4_Witness ==
    /\ pc = "prepared"
    /\ mode = "all"
    /\ Len(objects) >= 2
    /\ \E r \in AllRefs : Instance(objects, r).printable /\ IndexSelected(r)
    /\ \E r \in AllRefs : Instance(objects, r).printable /\ ~IndexSelected(r)
    /\ \E r \in AllRefs : ~Instance(objects, r).printable

\* C5: after prepare_selected, when a printable instance or the tower is selected,
\* every instance with a false printable flag is in unprintable whatever the
\* selection, every printable instance whose index is selected is in selected,
\* and every other printable instance is in unselected.
C5_ClassifySelected ==
    (pc = "prepared" /\ mode = "selected" /\ (~NoPrintableSelected \/ sel_wt)) =>
        \A r \in AllRefs :
            /\ Count(m_selected, r) + Count(m_unselected, r) + Count(m_unprintable, r) = 1
            /\ ~Instance(objects, r).printable => InList(m_unprintable, r)
            /\ (Instance(objects, r).printable /\ IndexSelected(r)) => InList(m_selected, r)
            /\ (Instance(objects, r).printable /\ ~IndexSelected(r)) => InList(m_unselected, r)

\* prepare_selected with a selected and an unselected printable instance and a
\* selected unprintable one
C5_Witness ==
    /\ pc = "prepared"
    /\ mode = "selected"
    /\ \E r \in AllRefs : Instance(objects, r).printable /\ IndexSelected(r) /\ r[2] = 2
    /\ \E r \in AllRefs : Instance(objects, r).printable /\ ~IndexSelected(r)
    /\ \E r \in AllRefs : ~Instance(objects, r).printable /\ IndexSelected(r)

\* C6 as stated: with no printable instance explicitly selected, prepare_selected
\* leaves exactly the N printable instances in selected.
C6_FallbackSelectsExactlyPrintable ==
    (pc = "prepared" /\ mode = "selected" /\ NoPrintableSelected) =>
        /\ Len(m_selected) = Cardinality(PrintableRefs)
        /\ Refs(m_selected) = PrintableRefs

\* C6 amended: with no printable instance explicitly selected and the tower not
\* selected, selected holds all N printable instances, plus the tower item when a
\* tower exists, and unselected is empty; with the tower selected, selected holds
\* the tower alone and the N printable instances stay in unselected.
C6_FallbackToAll ==
    (pc = "prepared" /\ mode = "selected" /\ NoPrintableSelected) =>
        IF sel_wt
        THEN /\ Refs(m_selected) = {WT}
             /\ Len(m_selected) = 1
             /\ Refs(m_unselected) = PrintableRefs
             /\ Len(m_unselected) = Cardinality(PrintableRefs)
        ELSE /\ Refs(m_selected) = PrintableRefs \cup (IF wti.valid THEN {WT} ELSE {})
             /\ Len(m_selected) = Cardinality(PrintableRefs) + (IF wti.valid THEN 1 ELSE 0)
             /\ m_unselected = <<>>

\* three printable instances, none selected, and an unselected tower: all four
\* items end up in selected
C6_Witness ==
    /\ pc = "prepared"
    /\ mode = "selected"
    /\ NoPrintableSelected
    /\ Cardinality(PrintableRefs) = 3
    /\ wti.valid
    /\ ~sel_wt
    /\ Len(m_selected) = 4

\* C7: an existing tower is in exactly one list and never in unprintable: in
\* selected after prepare_all; after prepare_selected it is classified to selected
\* if the selection designates the tower and to unselected otherwise, and the
\* fallback swap moves it to selected with the rest.  Without a tower no list
\* holds a tower item.
C7_TowerPlacement ==
    pc = "prepared" =>
        /\ Count(m_unprintable, WT) = 0
        /\ Count(m_selected, WT) + Count(m_unselected, WT) = (IF wti.valid THEN 1 ELSE 0)
        /\ mode = "all" => Count(m_unselected, WT) = 0
        /\ mode = "selected" =>
              /\ LET c == classify_selected(objects, sel_content, sel_wt, wti, config, NoLists)
                 IN  /\ Count(c.selected, WT) = (IF wti.valid /\ sel_wt THEN 1 ELSE 0)
                     /\ Count(c.unselected, WT) = (IF wti.valid /\ ~sel_wt THEN 1 ELSE 0)
                     /\ Count(c.unprintable, WT) = 0
              /\ InList(m_selected, WT) <=> (wti.valid /\ (sel_wt \/ NoPrintableSelected))

\* prepare_selected with a tower that is not selected beside a selected printable
\* instance: the tower is a fixed item
C7_Witness ==
    /\ pc = "prepared"
    /\ mode = "selected"
    /\ wti.valid
    /\ ~sel_wt
    /\ ~NoPrintableSelected
    /\ InList(m_unselected, WT)

\* the item of ref as get_arrange_poly builds it from the scene
SceneItem(ref) ==
    IF ref = WT THEN get_arrange_polygon(wti, config)
    ELSE InstanceItem(objects, config, ref)

\* stride = (1 + gap_fraction) x bed_width, in scaled units
ClaimStride == ((10 + LOGICAL_BED_GAP_TENTHS) * config.bed_width * SCALING) \div 10

\* C8: after prepare_selected every unselected item has its X translation
\* reduced by bed_idx x stride, with Y, rotation and bed index as built; selected
\* and unprintable items are not shifted.
C8_StrideNormalization ==
    (pc = "prepared" /\ mode = "selected") =>
        /\ \A k \in 1..Len(m_unselected) :
              LET p == m_unselected[k]
                  q == SceneItem(p.ref)
              IN  /\ p.tx = q.tx - q.bed_idx * ClaimStride
                  /\ p.ty = q.ty
                  /\ p.rot = q.rot
                  /\ p.bed_idx = q.bed_idx
        /\ \A k \in 1..Len(m_selected) : m_selected[k].tx = SceneItem(m_selected[k].ref).tx
        /\ \A k \in 1..Len(m_unprintable) :
              m_unprintable[k].tx = SceneItem(m_unprintable[k].ref).tx

\* bed width 200, gap 0.1: an unselected item on bed 2 is shifted by 440 mm
C8_Witness ==
    /\ pc = "prepared"
    /\ mode = "selected"
    /\ config.bed_width = 200
    /\ \E k \in 1..Len(m_unselected) :
          /\ m_unselected[k].bed_idx = 2
          /\ SceneItem(m_unselected[k].ref).tx - m_unselected[k].tx = scaled(440)
    /\ m_selected # <<>>

AllItems == m_selected \o m_unselected \o m_unprintable

\* margin = (override ?? default brim width) - clearance radius / 2, in half mm
ClaimMargin2(ref) ==
    (IF objects[ref[1]].brim_width # UNSET
     THEN 2 * objects[ref[1]].brim_width
     ELSE 2 * config.brim_width) - config.extruder_clearance_radius

\* C9: the footprint of every instance item is left as it is when the unified
\* brim flag is set or the margin is not positive, and is its offset by the
\* margin exactly when the flag is clear and the margin is positive.
C9_BrimInflation ==
    pc = "prepared" =>
        \A k \in 1..Len(AllItems) :
            LET p == AllItems[k]
            IN  p.ref # WT =>
                  LET raw == Instance(objects, p.ref).poly
                      m2  == ClaimMargin2(p.ref)
                  IN  IF config.complete_objects_one_brim \/ m2 <= 0
                      THEN p.poly = raw
                      ELSE p.poly = raw + (m2 * SCALING) \div 2 /\ p.poly > raw

\* brim 5 from the per-object override, clearance 4: the footprint grows by 3 mm
C9_Witness ==
    /\ pc = "prepared"
    /\ ~config.complete_objects_one_brim
    /\ config.extruder_clearance_radius = 4
    /\ config.brim_width = 0
    /\ Len(objects) = 1
    /\ objects[1].brim_width = 5
    /\ Len(AllItems) >= 1
    /\ AllItems[1].ref = <<1, 1>>
    /\ AllItems[1].poly = Instance(objects, <<1, 1>>).poly + scaled(3)

\* C10: both arrange calls receive max(distance, 2 x minimum object distance) as
\* minimum spacing, never less than either.
C10_MinSpacing ==
    /\ Len(arrange_calls) <= 2
    /\ pc \in {"arrange1", "arrange2"} => arrange_calls # <<>>
    /\ \A k \in 1..Len(arrange_calls) :
          /\ arrange_calls[k].list = (IF k = 1 THEN "selected" ELSE "unprintable")
          /\ arrange_calls[k].min_obj_distance =
                scaled(IF config.distance >= 2 * config.min_object_distance
                       THEN config.distance ELSE 2 * config.min_object_distance)
          /\ arrange_calls[k].min_obj_distance >= scaled(2 * config.min_object_distance)
          /\ arrange_calls[k].min_obj_distance >= scaled(config.distance)

\* both calls made with a user distance below twice the model's minimum
C10_Witness ==
    /\ Len(arrange_calls) = 2
    /\ config.distance = 3
    /\ config.min_object_distance = 2
    /\ arrange_calls[2].min_obj_distance = scaled(4)
    /\ m_unprintable # <<>>
    /\ Settled(m_unprintable[1])


\* ----------------------------------------------------- outcomes of a run
\* C11: the final status of process() tells the three outcomes apart: a run that
\* was cancelled, a run that succeeded and a run whose engine failed each end with
\* a different message; a failed run that was not cancelled does not end with
\* the message of success.
C11_StatusTellsOutcomes ==
    (pc = "processed" /\ ~canceled) =>
        /\ status.value = count
        /\ ~engine_failed => status.msg = "Arranging done."
        /\ engine_failed => status.msg \notin {"Arranging done.", "Arranging canceled."}

\* the run committed its result: finalize() went past its was_canceled() check
Completed == pc = "done" /\ updated

\* the run was cancelled: finalize() returned at its was_canceled() check
Cancelled == pc = "done" /\ canceled

\* the run failed: the engine threw and the error was shown
Failed == pc = "done" /\ engine_failed /\ notified

\* C12: every finished run posted its final status and falls under exactly one of
\* completion, cancellation and engine failure.
C12_ExactlyOneOutcome ==
    pc = "done" =>
        /\ status.value = count
        /\ status.msg \in {"Arranging done.", "Arranging canceled."}
        /\ Cardinality({o \in {"completed", "cancelled", "failed"} :
                \/ o = "completed" /\ Completed
                \/ o = "cancelled" /\ Cancelled
                \/ o = "failed" /\ Failed}) = 1


\* C13: process() touches the three lists of the job only: on the worker thread
\* it reads and writes no model instance, selection, configuration or print
\* state, and the scene is not written before finalize().
C13_ProcessTouchesOnlyLists ==
    /\ \A a \in worker_access :
          a.state \notin {"model instances", "selection", "configuration", "print state"}
    /\ pc \in {"prepared", "arrange1", "arrange2", "final", "processed"} => Scene = pre_run


\* the instances whose inflation by a positive margin yields no single contour
DegenerateRefs ==
    {ref \in AllRefs :
        /\ ~config.complete_objects_one_brim
        /\ ClaimMargin2(ref) > 0
        /\ Len(offset_ex(Instance(objects, ref).poly,
                         (ClaimMargin2(ref) * SCALING) \div 2)) # 1}

\* C14: when the inflation of an item by a positive margin yields zero or several
\* contours, prepare() goes on to the end and leaves that item's footprint
\* exactly as it was before inflation.
C14_DegenerateInflationSkipped ==
    (pc \in {"prepared", "crashed"} /\ DegenerateRefs # {}) =>
        /\ pc = "prepared"
        /\ \A k \in 1..Len(AllItems) :
              AllItems[k].ref \in DegenerateRefs =>
                 AllItems[k].poly = Instance(objects, AllItems[k].ref).poly


\* C15: finalize() applies no unselected item: no placement is written into the
\* instance (or the tower) behind an unselected item, and after the run the scene
\* transform of every unselected object is what it was before the run.
C15_UnselectedNeverApplied ==
    /\ applied \cap Refs(m_unselected) = {}
    /\ pc = "done" =>
          \A k \in 1..Len(m_unselected) :
             LET ref == m_unselected[k].ref
             IN  IF ref = WT
                 THEN wti = pre_run.wti
                 ELSE Instance(objects, ref) = Instance(pre_run.objects, ref)

\* a committed run in selected mode that moved a selected instance and left an
\* unselected one, standing on the last bed, where it was
C15_Witness ==
    /\ pc = "done"
    /\ ~canceled
    /\ updated
    /\ mode = "selected"
    /\ \E k \in 1..Len(m_unselected) :
          /\ m_unselected[k].ref # WT
          /\ m_unselected[k].bed_idx = MaxBed
    /\ \E k \in 1..Len(m_selected) :
          /\ m_selected[k].ref # WT
          /\ m_selected[k].ref \in applied
          /\ Settled(m_selected[k])
          /\ SceneItem(m_selected[k].ref).tx # scaled(Instance(pre_run.objects, m_selected[k].ref).x)


\* C16: the placement held by the wipe-tower adapter and the tower position and
\* rotation of the live print are never apart: applying a placement to the adapter
\* writes both in the same step, so the live tower shows it at once.
C16_TowerMirroredAtOnce ==
    wt_adapter # <<>> =>
        /\ wti.valid
        /\ wt_adapter[1] = [x |-> wti.x, y |-> wti.y, rot |-> wti.rot]

\* finalize() has applied the tower's placement: adapter and live print both hold
\* the settled position, which is not the one from before the run
C16_Witness ==
    /\ pc = "done"
    /\ WT \in applied
    /\ wt_adapter # <<>>
    /\ wt_adapter[1].x = unscaled(scaled(20))
    /\ wti.x = wt_adapter[1].x
    /\ wti.x # pre_run.wti.x


\* -------------------------------------------------- PrintRegion lookups
Lookup == pr_call.fn \in {"extruder", "flow", "width"}

SupportRoles == {"frSupportMaterial", "frSupportMaterialInterface"}

\* the 1-based extruder identifier configured for the role of the last lookup
RoleExtruderId ==
    IF pr_call.role \in {"frPerimeter", "frExternalPerimeter"}
    THEN pr_call.region.perimeter_extruder
    ELSE IF pr_call.role = "frInfill" THEN pr_call.region.infill_extruder
    ELSE IF pr_call.role \in {"frSolidInfill", "frTopSolidInfill"}
    THEN pr_call.region.solid_infill_extruder
    ELSE IF pr_call.role = "frSupportMaterial"
    THEN pr_call.object.support_material_extruder
    ELSE pr_call.object.support_material_interface_extruder

InRange(id) == 1 <= id /\ id <= Len(nozzle_diameter)

\* flow() is asked for a width it has no branch for
FlowCannotResolve ==
    /\ pr_call.fn = "flow"
    /\ pr_call.role \in SupportRoles
    /\ pr_call.width = -1
    /\ ~(pr_call.first_layer /\ pr_call.object.first_layer_extrusion_width.value > 0)

UnknownRoleThrown == ~pr_result.ok /\ pr_result.error = "Unknown role"

\* the extruders collect_object_printing_extruders is asked to insert
ActiveExtruderIds ==
    (IF pr_call.region.perimeters > 0
        \/ \E k \in 1..Len(pr_call.objects) : pr_call.objects[k].brim_width > 0
     THEN {pr_call.region.perimeter_extruder} ELSE {})
    \cup (IF pr_call.region.fill_density > 0
          THEN {pr_call.region.infill_extruder} ELSE {})
    \cup (IF pr_call.region.top_solid_layers > 0 \/ pr_call.region.bottom_solid_layers > 0
          THEN {pr_call.region.solid_infill_extruder} ELSE {})

\* C17: extruder(), flow() and width() throw "Unknown role" for every role they
\* cannot resolve, and an extruder identifier outside the configured range is
\* reported as an error, never mapped to the first nozzle or to extruder 0.
C17_LookupsFailFast ==
    /\ Lookup =>
          /\ (pr_call.role = "frUnknown" \/ FlowCannotResolve) => UnknownRoleThrown
          /\ (pr_call.role # "frUnknown" /\ ~InRange(RoleExtruderId)
                /\ pr_call.fn \in {"flow", "width"}) => ~pr_result.ok
    /\ (pr_call.fn = "collect" /\ pr_call.objects # <<>>
          /\ \E id \in ActiveExtruderIds : ~InRange(id)) => ~pr_result.ok

\* the nozzle diameter a flow() or width() result was computed from
ResultNozzle ==
    IF pr_call.fn = "flow" THEN pr_result.value[1].nozzle_diameter
    ELSE pr_result.value[1].width

\* C17 as amended: the three lookups throw "Unknown role" exactly for the roles
\* they cannot resolve; an identifier outside the configured range is not
\* reported: flow() and width() take the first nozzle for it, and
\* collect_object_printing_extruders without its debug asserts inserts extruder 0.
C17_UnknownRoleThrowsRangeFallsBack ==
    /\ Lookup =>
          /\ (pr_call.role = "frUnknown" \/ FlowCannotResolve) <=> ~pr_result.ok
          /\ ~pr_result.ok => UnknownRoleThrown
          /\ (pr_result.ok /\ pr_call.fn = "extruder") =>
                pr_result.value[1] = RoleExtruderId
          /\ (pr_result.ok /\ pr_call.fn = "flow") =>
                ResultNozzle = (IF InRange(RoleExtruderId)
                                THEN nozzle_diameter[RoleExtruderId]
                                ELSE nozzle_diameter[1])
          /\ (pr_result.ok /\ pr_call.fn = "width" /\ pr_result.value[1].auto) =>
                ResultNozzle = (IF InRange(RoleExtruderId)
                                THEN nozzle_diameter[RoleExtruderId]
                                ELSE nozzle_diameter[1])
    /\ (pr_call.fn = "collect" /\ pr_result.ok /\ pr_call.objects # <<>>) =>
          \A id \in ActiveExtruderIds :
             (IF InRange(id) THEN id - 1 ELSE 0) \in object_extruders

\* flow() for infill with an infill extruder one past the last: it returns a
\* flow computed from the first of two nozzles
C17_Witness ==
    /\ pr_call.fn = "flow"
    /\ pr_call.role = "frInfill"
    /\ Len(nozzle_diameter) = MaxExtruders
    /\ pr_call.region.infill_extruder = MaxExtruders + 1
    /\ pr_result.ok
    /\ pr_result.value[1].nozzle_diameter = nozzle_diameter[1]
    /\ nozzle_diameter[1] # nozzle_diameter[MaxExtruders]


\* C18: after prepare() in either mode, also after the fallback swap and after
\* earlier prepare() calls of the same job, every instance of the scene stands
\* behind exactly one item of exactly one list, the tower behind exactly one item
\* when it exists and none otherwise, and the lists hold no other item.
C18_ListsPartitionScene ==
    pc = "prepared" =>
        /\ \A r \in AllRefs :
              Count(m_selected, r) + Count(m_unselected, r) + Count(m_unprintable, r) = 1
        /\ Count(AllItems, WT) = (IF wti.valid THEN 1 ELSE 0)
        /\ Len(AllItems) = Cardinality(AllRefs) + (IF wti.valid THEN 1 ELSE 0)
        /\ Refs(m_selected) \cap Refs(m_unselected) = {}
        /\ Refs(m_selected) \cap Refs(m_unprintable) = {}
        /\ Refs(m_unselected) \cap Refs(m_unprintable) = {}

\* a second prepare() of a job whose lists still held the items of a cancelled
\* run: selected mode with no printable instance selected, so the swap has run,
\* over three instances and a tower
C18_Witness ==
    /\ pc = "prepared"
    /\ had_items
    /\ mode = "selected"
    /\ NoPrintableSelected
    /\ ~sel_wt
    /\ wti.valid
    /\ Cardinality(AllRefs) = MaxTotal
    /\ \E r \in AllRefs : ~Instance(objects, r).printable
    /\ m_selected # <<>>
    /\ m_unselected = <<>>
    /\ Len(AllItems) = MaxTotal + 1


\* C19: the progress values posted over a run (first arrange, second arrange,
\* final update) never decrease, always lie in 0..count with
\* count = |selected| + |unprintable|, and the last value posted is count.
C19_ProgressMonotone ==
    [][/\ status' # status =>
            /\ status'.value >= status.value
            /\ 0 <= status'.value
            /\ status'.value <= Len(m_selected') + Len(m_unprintable')
       /\ pc' \in {"processed", "done"} =>
            status'.value = Len(m_selected') + Len(m_unprintable')]_vars

\* halfway through the second arrange of a run with one selected and two
\* unprintable items: two of three are reported
C19_Witness ==
    /\ pc = "arrange2"
    /\ Len(m_selected) = 1
    /\ Len(m_unprintable) = 2
    /\ cursor = 1
    /\ status = [value |-> 2, msg |-> "Arranging"]


\* the 0-based index an extruder identifier stands for among n extruders
IndexOf(id, n) == IF id - 1 >= n THEN 0 ELSE IF id >= 1 THEN id - 1 ELSE 0

\* C20: whatever the configuration and the number n of extruders, every value
\* collect_object_printing_extruders inserts is an index in 0..n-1 that stands for
\* the extruder of an active feature, and no value of the set is removed.
C20_CollectedExtrudersInRange ==
    pr_call.fn = "collect" =>
        LET n        == Len(nozzle_diameter)
            inserted == object_extruders \ pr_call.before
            active   == IF pr_call.objects = <<>> THEN {} ELSE ActiveExtruderIds
        IN  /\ pr_call.before \subseteq object_extruders
            /\ inserted \subseteq 0..(n - 1)
            /\ inserted \subseteq {IndexOf(id, n) : id \in active}
            /\ pr_result.ok => {IndexOf(id, n) : id \in active} \subseteq object_extruders
            /\ ~pr_result.ok => inserted = {}

\* perimeters with an extruder one past the last of two, no infill although its
\* extruder is the second: index 0 is inserted into an empty set and index 1 is not
C20_Witness ==
    /\ pr_call.fn = "collect"
    /\ pr_result.ok
    /\ Len(nozzle_diameter) = MaxExtruders
    /\ Len(pr_call.objects) = 1
    /\ pr_call.before = {}
    /\ pr_call.region.perimeters > 0
    /\ pr_call.region.perimeter_extruder = MaxExtruders + 1
    /\ pr_call.region.fill_density = 0
    /\ pr_call.region.infill_extruder = MaxExtruders
    /\ pr_call.region.top_solid_layers = 0
    /\ pr_call.region.bottom_solid_layers = 0
    /\ object_extruders = {0}

====
